---- MODULE Spec2Model ----
(***************************************************************************)
(* The stdio MCP server of gemini-image-gen-mcp (class MCPServer): the     *)
(* line framer and dispatcher of processInput, the async handleRequest,    *)
(* the promise reactions it leaves on the microtask queue, the deferred    *)
(* notifications/initialized timer, the generation backend as an           *)
(* environment that settles in-flight calls, and the process exits; and    *)
(* the response cache (class Cache) with its clock.                        *)
(***************************************************************************)
EXTENDS Integers, Sequences, FiniteSets, TLC

(* The number of message texts the input stream carries in a run. *)
MaxLines == 2

(* Bounds of the framing specification: the length of the input text in    *)
(* units and the number of chunks it arrives in.                           *)
MaxText == 4
MaxChunks == 3

(* Bound of the cache specification: the last reading of the clock. *)
MaxTime == 4

(* Bound of the key specification: the length of a prompt. *)
MaxPrompt == 2

(* Bound of the web specification: the HTTP requests received. *)
MaxRequests == 3

VARIABLES
    buffer,        \* this.buffer: the text after the last newline seen
    initialized,   \* this.initialized
    out,           \* the lines written to process.stdout, in order
    microq,        \* the promise reaction jobs pending, first in first out
    awaiting,      \* lines whose handleRequest is suspended at the await
    timers,        \* pending setTimeout callbacks, in scheduling order
    rejected,      \* a promise was rejected with no handler left
    exited,        \* "running", or how the process ended
    reqs,          \* history: the non-blank lines dispatched, in order
    settled,       \* history: the backend calls settled, in order
    outcomes,      \* history: outcomes[p] is how the call settled[p] ended
    stream,        \* history: the chunks fed so far, in order
    cache,         \* Cache.cache: key -> {value, expiresAt, createdAt}
    now,           \* the clock read by Date.now()
    lastOp,        \* history: the last Cache call and what it returned
    lastSet,       \* history: key -> what the latest set(key) since the
                   \* last clear() stored
    heap,          \* the objects callers of the cache hold: object -> content
    keyCall,       \* history: the last generateKey call and its key
    authCall,      \* history: the last authenticate call and what it did
    env,           \* process.env: ENABLE_CACHE !== 'false', API_AUTH_TOKEN
    webReqs,       \* history: the HTTP requests received, in order
    pending,       \* requests whose handler is suspended at its await
    webOut         \* history: the HTTP responses sent, in order

(* The response cache and its clock. *)
cacheVars == <<cache, now, lastOp, lastSet, heap>>

(* The web server: its requests in flight and its environment. *)
webVars == <<keyCall, authCall, env, webReqs, pending, webOut>>

vars == <<buffer, initialized, out, microq, awaiting, timers, rejected,
          exited, reqs, settled, outcomes, stream, cacheVars, webVars>>

----------------------------------------------------------------------------
(* JSON values.  An id is kept as its JSON text, so that equal texts mean  *)
(* equal in type and value; Undefined is a member that is absent.          *)

Undefined == "undefined"
Null == "null"
Ids == {Null, "0", "1", "2", "\"\""}

(* JavaScript truthiness of an id: null, 0, "" and undefined are falsy. *)
Falsy(v) == v \in {Undefined, Null, "0", "\"\""}

(* `v || null` *)
OrNull(v) == IF Falsy(v) THEN Null ELSE v

Methods == {"initialize", "notifications/initialized", "tools/list",
            "resources/list", "prompts/list", "tools/call", "unknown/method"}

NoParams == [present |-> FALSE, name |-> Undefined, arguments |-> Undefined]

(* params of a tools/call: absent, or {name, arguments}. *)
CallParams ==
    {NoParams}
    \cup {[present |-> TRUE, name |-> "generate_image", arguments |-> a] :
             a \in {Undefined, "{}", "{prompt}"}}
    \cup {[present |-> TRUE, name |-> "other_tool", arguments |-> "{}"]}

Obj(v, i, m, p) ==
    [form |-> "object", jsonrpc |-> v, id |-> i, method |-> m, params |-> p]

(* A line of whitespace only. *)
Blank == [form |-> "blank", jsonrpc |-> Undefined, id |-> Undefined,
          method |-> Undefined, params |-> NoParams]

Unparsable == [form |-> "unparsable", jsonrpc |-> Undefined, id |-> Undefined,
               method |-> Undefined, params |-> NoParams]
JsonNull == [Unparsable EXCEPT !.form = "null"]
JsonScalar == [Unparsable EXCEPT !.form = "scalar"]

Prompt == [present |-> TRUE, name |-> "generate_image", arguments |-> "{prompt}"]

(* The texts a line of the input may hold.  Every id goes with the paths   *)
(* that rewrite or test the id (the version check, the catch, the default  *)
(* case); the paths that copy the id take fewer.                           *)
Messages ==
    {Blank, Unparsable, JsonNull, JsonScalar}
    \cup {Obj("1.0", i, "initialize", NoParams) : i \in Ids \cup {Undefined}}
    \cup {Obj("1.0", i, "tools/call", Prompt) : i \in {Undefined, "1"}}
    \cup {Obj("2.0", i, "unknown/method", NoParams) : i \in Ids \cup {Undefined}}
    \cup {Obj("2.0", i, "tools/call", NoParams) : i \in Ids \cup {Undefined}}
    \cup {Obj("2.0", i, "initialize", NoParams) : i \in {Undefined, "1", "2"}}
    \cup {Obj("2.0", i, m, NoParams) :
             i \in {Undefined, "1"},
             m \in {"notifications/initialized", "tools/list",
                    "resources/list", "prompts/list"}}
    \cup {Obj("2.0", i, "tools/call", Prompt) : i \in {Undefined, "1", "2"}}
    \cup {Obj("2.0", "1", "tools/call", p) : p \in CallParams \ {NoParams, Prompt}}
    \cup {Obj("2.0", "1", Undefined, NoParams)}

NL == [form |-> "newline", jsonrpc |-> Undefined, id |-> Undefined,
       method |-> Undefined, params |-> NoParams]

----------------------------------------------------------------------------
(* JSON-RPC responses as handleRequest builds them.  A response has a      *)
(* `result` member (result # "none") or an `error` member (code # 0).      *)

Resp(i, res, c, d) == [nil |-> FALSE, id |-> i, result |-> res, code |-> c, data |-> d]
NoResp == [nil |-> TRUE, id |-> Undefined, result |-> "none", code |-> 0, data |-> "none"]

(* JSON.stringify(x) + '\n' as one stdout write.  A member whose value is  *)
(* undefined is left out of the text: id stays Undefined, "no id member".  *)
(* req is history: the input line whose handling wrote this line.          *)
ResponseLine(resp, r) ==
    [kind |-> "response", id |-> resp.id, result |-> resp.result,
     code |-> resp.code, data |-> resp.data, req |-> r]

NotificationLine(r) ==
    [kind |-> "notification", id |-> Undefined, result |-> "none",
     code |-> 0, data |-> "none", req |-> r]

(* What the synchronous part of a handleRequest call did. *)
Effect(k, resp, init, w, t) ==
    [kind |-> k, resp |-> resp, setInit |-> init, writes |-> w, timers |-> t]

(* Variant: every handler that returns a value sets the flag. *)
ReturnSetsInitialized(resp) == Effect("return", resp, TRUE, <<>>, <<>>)

(* `return resp` from a case that touches nothing else. *)
Return(resp) == Effect("return", resp, FALSE, <<>>, <<>>)

(* case 'initialize': the flag, the result written at once, the timer,     *)
(* and null returned because the response is already sent.                 *)
(* Variant: the response is written and also returned to the caller. *)
InitializeWrittenTwice(id, r) ==
    Effect("return", Resp(id, "init", 0, "none"), TRUE,
           <<ResponseLine(Resp(id, "init", 0, "none"), r)>>, <<r>>)

(* Variant: the notification is written at once, ahead of the result. *)
InitializeNotifiesFirst(id, r) ==
    Effect("return", NoResp, TRUE,
           <<NotificationLine(r), ResponseLine(Resp(id, "init", 0, "none"), r)>>,
           <<>>)

Initialize(id, r) ==
    Effect("return", NoResp, TRUE,
           <<ResponseLine(Resp(id, "init", 0, "none"), r)>>, <<r>>)

(* The catch of handleRequest: -32603 with `request.id || null`. *)
InternalError(request) == Resp(OrNull(request.id), "none", -32603, "error.message")

(* Variant: the tool name is not looked at. *)
ToolsCallAnyTool(request) ==
    IF ~request.params.present
    THEN Return(InternalError(request))
    ELSE IF request.params.arguments # "{prompt}"
    THEN Return(Resp(request.id, "none", -32000, "none"))
    ELSE Effect("await", NoResp, FALSE, <<>>, <<>>)

(* Variant: the prompt is not checked before the backend is called. *)
ToolsCallWithoutPromptCheck(request) ==
    IF ~request.params.present
    THEN Return(InternalError(request))
    ELSE IF request.params.name = "generate_image"
    THEN IF request.params.arguments = Undefined
         THEN Return(Resp(request.id, "none", -32000, "none"))
         ELSE Effect("await", NoResp, FALSE, <<>>, <<>>)
    ELSE Return(Resp(request.id, "none", -32601, "none"))

(* case 'tools/call', up to the await of geminiService.generateImage. *)
ToolsCall(request) ==
    LET params == request.params
        id == request.id
    IN  IF ~params.present
            \* destructuring undefined throws a TypeError: the outer catch
        THEN Return(InternalError(request))
        ELSE IF params.name = "generate_image"
        THEN IF params.arguments = Undefined
                 \* args.prompt throws inside the inner try
             THEN Return(Resp(id, "none", -32000, "none"))
             ELSE IF params.arguments # "{prompt}"
             THEN Return(Resp(id, "none", -32000, "none"))
             ELSE Effect("await", NoResp, FALSE, <<>>, <<>>)
        ELSE Return(Resp(id, "none", -32601, "none"))

(* Variant: the default case tests `if (id)`. *)
MethodNotFoundForTruthyId(request) ==
    IF ~Falsy(request.id)
    THEN Return(Resp(request.id, "none", -32601, "none"))
    ELSE Return(NoResp)

(* The default case: -32601 when there is an id, nothing otherwise. *)
MethodNotFound(request) ==
    IF request.id # Undefined
    THEN Return(Resp(request.id, "none", -32601, "none"))
    ELSE Return(NoResp)

(* Variant: the version of the message is not looked at. *)
HandleRequestAnyVersion(request, r) ==
    IF request.form = "null"
    THEN Effect("throw", NoResp, FALSE, <<>>, <<>>)
    ELSE CASE request.method = "initialize" -> Initialize(request.id, r)
           [] request.method = "notifications/initialized" -> Return(NoResp)
           [] request.method = "tools/list" ->
                  Return(Resp(request.id, "tools", 0, "none"))
           [] request.method = "resources/list" ->
                  Return(Resp(request.id, "resources", 0, "none"))
           [] request.method = "prompts/list" ->
                  Return(Resp(request.id, "prompts", 0, "none"))
           [] request.method = "tools/call" -> ToolsCall(request)
           [] OTHER -> MethodNotFound(request)

(* handleRequest from its call to its first await, return or throw. *)
HandleRequest(request, r) ==
    IF request.form = "null"
        \* destructuring null throws; the catch reads request.id and throws
    THEN Effect("throw", NoResp, FALSE, <<>>, <<>>)
    ELSE IF request.jsonrpc # "2.0"
    THEN Return(Resp(OrNull(request.id), "none", -32600, "jsonrpc must be 2.0"))
    ELSE CASE request.method = "initialize" -> Initialize(request.id, r)
           [] request.method = "notifications/initialized" -> Return(NoResp)
           [] request.method = "tools/list" ->
                  Return(Resp(request.id, "tools", 0, "none"))
           [] request.method = "resources/list" ->
                  Return(Resp(request.id, "resources", 0, "none"))
           [] request.method = "prompts/list" ->
                  Return(Resp(request.id, "prompts", 0, "none"))
           [] request.method = "tools/call" -> ToolsCall(request)
           [] OTHER -> MethodNotFound(request)

(* The outcomes of geminiService.generateImage: an image, the placeholder  *)
(* image with an `error` field, or a rejection.                            *)
BackendOutcomes == {"image", "fallback", "rejected"}

(* Variant: the id captured before the await is lost across it. *)
ToolsCallAnswersNull(request, outcome) ==
    IF outcome = "rejected"
    THEN Resp(Null, "none", -32000, "none")
    ELSE Resp(Null, IF outcome = "fallback" THEN "content+note" ELSE "content",
              0, "none")

(* Variant: the inner catch logs the failure and answers nothing. *)
ToolsCallSwallowsFailure(request, outcome) ==
    IF outcome = "rejected"
    THEN NoResp
    ELSE Resp(request.id, IF outcome = "fallback" THEN "content+note" ELSE "content",
              0, "none")

(* handleRequest after the await: the text result, or -32000. *)
ToolsCallResume(request, outcome) ==
    IF outcome = "rejected"
    THEN Resp(request.id, "none", -32000, "none")
    ELSE Resp(request.id, IF outcome = "fallback" THEN "content+note" ELSE "content",
              0, "none")

----------------------------------------------------------------------------
(* processInput *)

(* s.split('\n') over the text kept as a sequence of units: a unit is the  *)
(* whole text of one message (never cut) or the newline.                   *)
RECURSIVE SplitFrom(_, _, _)
SplitFrom(s, i, cur) ==
    IF i > Len(s) THEN <<cur>>
    ELSE IF s[i] = NL THEN <<cur>> \o SplitFrom(s, i + 1, <<>>)
    ELSE SplitFrom(s, i + 1, Append(cur, s[i]))

Split(s) == SplitFrom(s, 1, <<>>)

(* Variant: `if (line)`, the line is skipped only when it is empty. *)
TrimsToEmptyUntrimmed(line) == line = <<>>

(* line.trim() is the empty string *)
TrimsToEmpty(line) == \A k \in DOMAIN line : line[k] = Blank

(* JSON.parse(line): the value, or Unparsable when it throws.  White space *)
(* around a text is skipped; two texts on one line are no JSON text.       *)
Parse(line) ==
    LET texts == SelectSeq(line, LAMBDA u : u # Blank)
    IN  IF Len(texts) = 1 THEN texts[1] ELSE Unparsable

(* Promise reaction jobs.  "then": the callback of .then with the value    *)
(* handleRequest returned; "rejected": .then handing a rejection on to     *)
(* .catch; "catch": the callback of .catch; "resume": handleRequest after  *)
(* its await, with the outcome of the backend call.                        *)
Job(t, r, resp, o) == [type |-> t, req |-> r, resp |-> resp, outcome |-> o]

(* The state processInput and the reactions act on, as one record. *)
State == [initialized |-> initialized, out |-> out, microq |-> microq,
          awaiting |-> awaiting, timers |-> timers, reqs |-> reqs]

(* Variant: the parse error is reported as an Invalid Request. *)
ParseErrorAsInvalidRequest(r) ==
    ResponseLine(Resp(Null, "none", -32600, "error.message"), r)

(* The catch of JSON.parse: -32700 with id null. *)
ParseError(r) == ResponseLine(Resp(Null, "none", -32700, "error.message"), r)

(* Variant: the reaction of a call is put at the head of the queue. *)
DispatchLineReactionFirst(line, st) ==
    LET request == Parse(line)
        r == Len(st.reqs) + 1
        eff == HandleRequest(request, r)
    IN  IF request.form = "unparsable"
        THEN [st EXCEPT !.reqs = Append(@, request),
                        !.out = Append(@, ParseError(r))]
        ELSE [st EXCEPT
                !.reqs = Append(@, request),
                !.initialized = @ \/ eff.setInit,
                !.out = @ \o eff.writes,
                !.timers = @ \o eff.timers,
                !.awaiting = IF eff.kind = "await" THEN @ \cup {r} ELSE @,
                !.microq =
                    CASE eff.kind = "return" -> <<Job("then", r, eff.resp, "none")>> \o @
                      [] eff.kind = "throw" -> <<Job("rejected", r, NoResp, "none")>> \o @
                      [] OTHER -> @]

(* The body of the for loop for one non-blank line. *)
DispatchLine(line, st) ==
    LET request == Parse(line)
        r == Len(st.reqs) + 1
        eff == HandleRequest(request, r)
    IN  IF request.form = "unparsable"
        THEN [st EXCEPT !.reqs = Append(@, request),
                        !.out = Append(@, ParseError(r))]
        ELSE [st EXCEPT
                !.reqs = Append(@, request),
                !.initialized = @ \/ eff.setInit,
                !.out = @ \o eff.writes,
                !.timers = @ \o eff.timers,
                !.awaiting = IF eff.kind = "await" THEN @ \cup {r} ELSE @,
                !.microq =
                    CASE eff.kind = "return" -> Append(@, Job("then", r, eff.resp, "none"))
                      [] eff.kind = "throw" -> Append(@, Job("rejected", r, NoResp, "none"))
                      [] OTHER -> @]

RECURSIVE DispatchLines(_, _)
DispatchLines(lines, st) ==
    IF lines = <<>> THEN st
    ELSE DispatchLines(Tail(lines),
                       IF TrimsToEmpty(Head(lines)) THEN st
                       ELSE DispatchLine(Head(lines), st))

(* Variant: stdin is paused while a tools/call is in flight. *)
StdinPausedWhileAwaiting == awaiting = {}

(* stdin is in flowing mode from start() on: nothing pauses it. *)
StdinFlowing == TRUE

(* The event loop takes the next callback (data, timer, end) only with     *)
(* the microtask queue drained and no rejection left to report.            *)
LoopIdle == exited = "running" /\ microq = <<>> /\ ~rejected

(* The chunks the stream can deliver next: texts and newlines alternate,   *)
(* a chunk may be empty, end inside a line or hold several lines.          *)
RECURSIVE Chunks(_, _)
Chunks(atNewline, n) ==
    {<<>>} \cup
    IF atNewline
    THEN {<<NL>> \o c : c \in Chunks(FALSE, n)}
    ELSE IF n = 0 THEN {}
    ELSE {<<m>> \o c : m \in Messages, c \in Chunks(TRUE, n - 1)}

LinesLeft == MaxLines - Len(reqs) - Len(buffer)

(* Variant: the unfinished last line is thrown away. *)
RetainedDropped(lines) == <<>>

(* `lines.pop() || ''`: the text after the last newline stays buffered. *)
Retained(lines) == lines[Len(lines)]

ProcessInput(chunk) ==
    LET lines == Split(buffer \o chunk)
        st == DispatchLines(SubSeq(lines, 1, Len(lines) - 1), State)
    IN  /\ buffer' = Retained(lines)
        /\ initialized' = st.initialized
        /\ out' = st.out
        /\ microq' = st.microq
        /\ awaiting' = st.awaiting
        /\ timers' = st.timers
        /\ reqs' = st.reqs
        /\ UNCHANGED <<rejected, exited, settled, outcomes, cacheVars, webVars>>

StdinData ==
    /\ LoopIdle
    /\ StdinFlowing
    /\ \E chunk \in Chunks(buffer # <<>>, LinesLeft) : ProcessInput(chunk)
    /\ UNCHANGED stream

(* The units of the framing specification: the newline, white space and   *)
(* two requests told apart by id and method.                               *)
Units == {NL, Blank, Obj("2.0", "1", "tools/list", NoParams),
          Obj("2.0", "2", "prompts/list", NoParams)}

(* Every chunk of at most n units: empty, ending anywhere in a line,       *)
(* holding any number of lines.                                            *)
AnyChunks(n) == UNION {[1..k -> Units] : k \in 0..n}

RECURSIVE Text(_)
Text(chunks) == IF chunks = <<>> THEN <<>> ELSE Head(chunks) \o Text(Tail(chunks))

(* A 'data' event with an arbitrary chunk, the chunk kept in the history.  *)
StdinChunk ==
    /\ LoopIdle
    /\ StdinFlowing
    /\ Len(stream) < MaxChunks
    /\ \E chunk \in AnyChunks(MaxText - Len(Text(stream))) :
          /\ ProcessInput(chunk)
          /\ stream' = Append(stream, chunk)

(* The head of the microtask queue runs. *)
RunMicrotask ==
    /\ exited = "running"
    /\ microq # <<>>
    /\ LET job == Head(microq)
           rest == Tail(microq)
       IN  CASE job.type = "then" ->
                    \* response => { if (response) write }
                    /\ out' = IF job.resp.nil THEN out
                              ELSE Append(out, ResponseLine(job.resp, job.req))
                    /\ microq' = rest
                    /\ UNCHANGED rejected
             [] job.type = "rejected" ->
                    /\ microq' = Append(rest, Job("catch", job.req, NoResp, "none"))
                    /\ UNCHANGED <<out, rejected>>
             [] job.type = "catch" ->
                    \* error => { ... id: request.id || null ... write }
                    IF reqs[job.req].form = "null"
                    THEN /\ rejected' = TRUE
                         /\ microq' = rest
                         /\ UNCHANGED out
                    ELSE /\ out' = Append(out, ResponseLine(InternalError(reqs[job.req]), job.req))
                         /\ microq' = rest
                         /\ UNCHANGED rejected
             [] job.type = "resume" ->
                    /\ microq' = Append(rest, Job("then", job.req,
                                        ToolsCallResume(reqs[job.req], job.outcome), "none"))
                    /\ UNCHANGED <<out, rejected>>
    /\ UNCHANGED <<buffer, initialized, awaiting, timers, exited, reqs, settled, outcomes, stream, cacheVars, webVars>>

(* The promise of generateImage settles for an in-flight call. *)
BackendSettles ==
    /\ exited = "running"
    /\ \E r \in awaiting, o \in BackendOutcomes :
          /\ awaiting' = awaiting \ {r}
          /\ microq' = Append(microq, Job("resume", r, NoResp, o))
          /\ settled' = Append(settled, r)
          /\ outcomes' = Append(outcomes, o)
    /\ UNCHANGED <<buffer, initialized, out, timers, rejected, exited, reqs,
                   stream, cacheVars, webVars>>

(* The setTimeout callback of an initialize. *)
TimerFires ==
    /\ LoopIdle
    /\ timers # <<>>
    /\ out' = IF initialized THEN Append(out, NotificationLine(Head(timers))) ELSE out
    /\ timers' = Tail(timers)
    /\ UNCHANGED <<buffer, initialized, microq, awaiting, rejected, exited, reqs, settled, outcomes, stream, cacheVars, webVars>>

(* process.on('unhandledRejection'): process.exit(1) *)
UnhandledRejection ==
    /\ exited = "running" /\ microq = <<>> /\ rejected
    /\ exited' = "exit(1) unhandledRejection"
    /\ UNCHANGED <<buffer, initialized, out, microq, awaiting, timers, rejected, reqs, settled, outcomes, stream, cacheVars, webVars>>

(* process.stdin.on('end'): process.exit(0) *)
StdinEnd ==
    /\ LoopIdle
    /\ exited' = "exit(0) end"
    /\ UNCHANGED <<buffer, initialized, out, microq, awaiting, timers, rejected, reqs, settled, outcomes, stream, cacheVars, webVars>>

(* new Map() *)
EmptyMap == [k \in {} |-> {}]

(* A Cache call in the history: the operation, its key, the clock it read, *)
(* what it returned and the map it found.                                  *)
Op(o, k, t, res, before) ==
    [op |-> o, key |-> k, now |-> t, result |-> res, before |-> before]

(* No Cache call made yet. *)
NoOp == Op("none", Undefined, 0, Undefined, EmptyMap)

(* options = {}: every member absent. *)
NoOptions == [model |-> Undefined, temperature |-> Undefined,
              topP |-> Undefined, topK |-> Undefined]

(* No generateKey call made yet. *)
NoKeyCall == [called |-> FALSE, prompt |-> <<>>, options |-> NoOptions, key |-> <<>>]

(* No Authorization header. *)
NoHeader == [scheme |-> Undefined, rest |-> Undefined]

(* No authenticate call made yet. *)
NoAuthCall == [called |-> FALSE, configured |-> Undefined, header |-> NoHeader,
               query |-> Undefined, nexts |-> 0, statuses |-> <<>>]

(* The environment with nothing set: the cache on, no token configured. *)
NoEnv == [cacheEnabled |-> TRUE, apiAuthToken |-> Undefined]

(* The state after construction, in the environment e. *)
(* The objects callers of the cache hold, by reference, and the objects as *)
(* they are created: every one with the content "a".                      *)
Objects == {"o1", "o2"}
NewObjects == [o \in Objects |-> "a"]

InitWith(e) ==
    /\ buffer = <<>>
    /\ initialized = FALSE
    /\ out = <<>>
    /\ microq = <<>>
    /\ awaiting = {}
    /\ timers = <<>>
    /\ rejected = FALSE
    /\ exited = "running"
    /\ reqs = <<>>
    /\ settled = <<>>
    /\ outcomes = <<>>
    /\ stream = <<>>
    /\ cache = EmptyMap
    /\ now = 0
    /\ lastOp = NoOp
    /\ lastSet = EmptyMap
    /\ heap = NewObjects
    /\ keyCall = NoKeyCall
    /\ authCall = NoAuthCall
    /\ env = e
    /\ webReqs = <<>>
    /\ pending = {}
    /\ webOut = <<>>

Init == InitWith(NoEnv)

Next ==
    \/ StdinData
    \/ RunMicrotask
    \/ BackendSettles
    \/ TimerFires
    \/ UnhandledRejection
    \/ StdinEnd

Spec == Init /\ [][Next]_vars

----------------------------------------------------------------------------
(* Cache *)

serverVars == <<buffer, initialized, out, microq, awaiting, timers, rejected,
                exited, reqs, settled, outcomes, stream>>

(* responseCache = new Cache(30 * 60 * 1000): the clock counts quarters of *)
(* an hour.                                                                *)
Ttl == 2

Keys == {"k1", "k2"}
Values == {"a", "b"}

(* Map.set and Map.delete *)
Put(c, k, e) == [x \in DOMAIN c \cup {k} |-> IF x = k THEN e ELSE c[x]]
Delete(c, ks) == [x \in DOMAIN c \ ks |-> c[x]]

(* Variant: an entry counts as expired at its deadline already. *)
getExpiringAtDeadline(c, k, t) ==
    IF k \notin DOMAIN c THEN [result |-> Null, cache |-> c]
    ELSE IF t >= c[k].expiresAt THEN [result |-> Null, cache |-> Delete(c, {k})]
    ELSE [result |-> c[k].value, cache |-> c]

(* get(key) with Date.now() = t: what it returns and the map it leaves. *)
get(c, k, t) ==
    IF k \notin DOMAIN c THEN [result |-> Null, cache |-> c]
    ELSE IF t > c[k].expiresAt THEN [result |-> Null, cache |-> Delete(c, {k})]
    ELSE [result |-> c[k].value, cache |-> c]

(* Variant: the sweep finds the expired entries and deletes none. *)
cleanupKeepsAll(c, t) == Delete(c, {k \in {} : t > c[k].expiresAt})

(* Variant: the sweep takes the entries at their deadline too. *)
cleanupAtDeadline(c, t) == Delete(c, {k \in DOMAIN c : t >= c[k].expiresAt})

(* cleanup() with Date.now() = t: the map it leaves. *)
cleanup(c, t) == Delete(c, {k \in DOMAIN c : t > c[k].expiresAt})

(* getStats() with Date.now() = t *)
getStats(c, t) ==
    [size |-> Cardinality(DOMAIN c),
     ttl |-> Ttl,
     entries |-> {[key |-> k, age |-> t - c[k].createdAt,
                   expiresIn |-> c[k].expiresAt - t] : k \in DOMAIN c}]

(* set(key, value) with Date.now() = t1 for expiresAt and t2 for           *)
(* createdAt: the map it leaves.                                           *)
set(c, k, v, t1, t2) ==
    Put(c, k, [value |-> v, expiresAt |-> t1 + Ttl, createdAt |-> t2])

(* set(key, value): Date.now() is read for expiresAt and again for         *)
(* createdAt; the clock may move on between the two.                       *)
Set(k, v) ==
    \E d \in 0..1 :
        /\ now + d <= MaxTime
        /\ cache' = set(cache, k, v, now, now + d)
        /\ now' = now + d
        /\ lastOp' = Op("set", k, now, Undefined, cache)
        /\ lastSet' = Put(lastSet, k, [value |-> v, expiresAt |-> now + Ttl])
        /\ UNCHANGED <<serverVars, webVars, heap>>

Get(k) ==
    /\ cache' = get(cache, k, now).cache
    /\ lastOp' = Op("get", k, now, get(cache, k, now).result, cache)
    /\ UNCHANGED <<now, lastSet, serverVars, webVars, heap>>

(* The setInterval callback, or a direct call. *)
Cleanup ==
    /\ cache' = cleanup(cache, now)
    /\ lastOp' = Op("cleanup", Undefined, now, Undefined, cache)
    /\ UNCHANGED <<now, lastSet, serverVars, webVars, heap>>

Clear ==
    /\ cache' = EmptyMap
    /\ lastOp' = Op("clear", Undefined, now, Undefined, cache)
    /\ lastSet' = EmptyMap
    /\ UNCHANGED <<now, serverVars, webVars, heap>>

(* Time passes. *)
Tick ==
    /\ now < MaxTime
    /\ now' = now + 1
    /\ UNCHANGED <<cache, lastOp, lastSet, serverVars, webVars, heap>>

NextCache ==
    \/ \E k \in Keys, v \in Values : Set(k, v)
    \/ \E k \in Keys : Get(k)
    \/ Cleanup
    \/ Clear
    \/ Tick

SpecCache == Init /\ [][NextCache]_vars

(* setInterval(() => responseCache.cleanup(), 5 * 60 * 1000): while the    *)
(* process runs the sweep is called again and again, whatever else the     *)
(* cache is asked to do.                                                   *)
SpecCacheFair == Init /\ [][NextCache]_vars /\ WF_vars(Cleanup)

(* set(key, value) called with an object of the caller: `value: value`     *)
(* stores the reference, no copy is made.  The history keeps the content   *)
(* the object had when it was stored.                                      *)
SetObject(k, o) ==
    \E d \in 0..1 :
        /\ now + d <= MaxTime
        /\ cache' = set(cache, k, o, now, now + d)
        /\ now' = now + d
        /\ lastOp' = Op("set", k, now, Undefined, cache)
        /\ lastSet' = Put(lastSet, k, [value |-> heap[o], expiresAt |-> now + Ttl])
        /\ UNCHANGED <<serverVars, webVars, heap>>

(* A caller changes an object it holds: one it passed to set, or one that  *)
(* get handed to it (`return entry.value`).                                *)
Mutate(o) ==
    /\ \/ \E k \in DOMAIN cache : cache[k].value = o
       \/ lastOp.op = "get" /\ lastOp.result = o
    /\ \E v \in Values \ {heap[o]} : heap' = [heap EXCEPT ![o] = v]
    /\ UNCHANGED <<cache, now, lastOp, lastSet, serverVars, webVars>>

NextAlias ==
    \/ \E k \in Keys, o \in Objects : SetObject(k, o)
    \/ \E k \in Keys : Get(k)
    \/ \E o \in Objects : Mutate(o)
    \/ Tick

SpecAlias == Init /\ [][NextAlias]_vars

----------------------------------------------------------------------------
(* Cache.generateKey *)

(* The characters of a prompt: white space and a letter in both cases. *)
Chars == {" ", "s", "S"}

(* Every prompt of at most n characters. *)
Prompts(n) == UNION {[1..k -> Chars] : k \in 0..n}

(* Numbers are kept as their JSON text; 0 is the falsy one. *)
Models == {Undefined, "default", "gemini-2.0-flash-preview-image-generation"}
Temperatures == {Undefined, "0", "1"}
TopPs == {Undefined, "0.5", "0.95"}
TopKs == {Undefined, "40"}

Options == [model : Models, temperature : Temperatures, topP : TopPs, topK : TopKs]

(* String.prototype.trim *)
RECURSIVE TrimStart(_)
TrimStart(p) == IF p # <<>> /\ Head(p) = " " THEN TrimStart(Tail(p)) ELSE p

RECURSIVE TrimEnd(_)
TrimEnd(p) ==
    IF p # <<>> /\ p[Len(p)] = " " THEN TrimEnd(SubSeq(p, 1, Len(p) - 1)) ELSE p

Trim(p) == TrimEnd(TrimStart(p))

(* String.prototype.toLowerCase *)
ToLowerCase(p) == [i \in DOMAIN p |-> IF p[i] = "S" THEN "s" ELSE p[i]]

(* `v || d` *)
OrDefault(v, d) == IF Falsy(v) THEN d ELSE v

(* Variant: the prompt is trimmed but its case is kept. *)
generateKeyCaseSensitive(prompt, options) ==
    <<Trim(prompt),
      OrDefault(options.model, "default"),
      OrDefault(options.temperature, "1"),
      OrDefault(options.topP, "0.95"),
      OrDefault(options.topK, "40")>>

(* generateKey(prompt, options).  JSON.stringify of an object with these   *)
(* five members in this order is one-to-one in their values, so the key is *)
(* kept as the tuple of the values.                                        *)
generateKey(prompt, options) ==
    <<ToLowerCase(Trim(prompt)),
      OrDefault(options.model, "default"),
      OrDefault(options.temperature, "1"),
      OrDefault(options.topP, "0.95"),
      OrDefault(options.topK, "40")>>

GenerateKey ==
    /\ \E prompt \in Prompts(MaxPrompt), options \in Options :
          keyCall' = [called |-> TRUE, prompt |-> prompt, options |-> options,
                      key |-> generateKey(prompt, options)]
    /\ UNCHANGED <<serverVars, cacheVars, authCall, env, webReqs,
                   pending, webOut>>

NextKey == GenerateKey

SpecKey == Init /\ [][NextKey]_vars

----------------------------------------------------------------------------
(* authenticate *)

(* process.env.API_AUTH_TOKEN: not set, set to the empty string, or set. *)
ConfiguredTokens == {Undefined, "", "t1"}

(* req.headers.authorization: absent, or a scheme with its blank followed  *)
(* by the rest of the header.                                              *)
Headers ==
    {NoHeader} \cup [scheme : {"Bearer ", "bearer ", "Basic "}, rest : {"", "t1", "t2"}]

(* req.query.token *)
QueryTokens == {Undefined, "", "t1", "t2"}

(* `!v` for a string that may be absent *)
NoString(v) == v \in {Undefined, Null, ""}

(* What a middleware did: the calls of next() and the statuses sent. *)
Did(n, st) == [nexts |-> n, statuses |-> st]

(* Variant: the 401 branch lacks its return. *)
authenticateWithoutReturn(configured, header, query) ==
    IF NoString(configured) THEN Did(1, <<>>)
    ELSE LET fromHeader == IF header # NoHeader /\ header.scheme = "Bearer "
                           THEN header.rest ELSE Null
             providedToken == IF NoString(fromHeader) /\ ~NoString(query)
                              THEN query ELSE fromHeader
         IN  IF NoString(providedToken) THEN Did(0, <<401, 403>>)
             ELSE IF providedToken # configured THEN Did(0, <<403>>)
             ELSE Did(1, <<>>)

(* Variant: the query parameter is looked at before the header. *)
authenticateQueryFirst(configured, header, query) ==
    IF NoString(configured) THEN Did(1, <<>>)
    ELSE LET fromHeader == IF header # NoHeader /\ header.scheme = "Bearer "
                           THEN header.rest ELSE Null
             providedToken == IF ~NoString(query) THEN query ELSE fromHeader
         IN  IF NoString(providedToken) THEN Did(0, <<401>>)
             ELSE IF providedToken # configured THEN Did(0, <<403>>)
             ELSE Did(1, <<>>)

(* authenticate(req, res, next) *)
authenticate(configured, header, query) ==
    IF NoString(configured) THEN Did(1, <<>>)
    ELSE LET fromHeader == IF header # NoHeader /\ header.scheme = "Bearer "
                           THEN header.rest ELSE Null
             providedToken == IF NoString(fromHeader) /\ ~NoString(query)
                              THEN query ELSE fromHeader
         IN  IF NoString(providedToken) THEN Did(0, <<401>>)
             ELSE IF providedToken # configured THEN Did(0, <<403>>)
             ELSE Did(1, <<>>)

Authenticate ==
    /\ \E configured \in ConfiguredTokens, header \in Headers, query \in QueryTokens :
          LET did == authenticate(configured, header, query)
          IN  authCall' = [called |-> TRUE, configured |-> configured,
                           header |-> header, query |-> query,
                           nexts |-> did.nexts, statuses |-> did.statuses]
    /\ UNCHANGED <<serverVars, cacheVars, keyCall, env, webReqs,
                   pending, webOut>>

NextAuth == Authenticate

SpecAuth == Init /\ [][NextAuth]_vars

----------------------------------------------------------------------------
(* The web server: POST /api/generate-image and POST /api/cache/clear *)

(* The environments the server may be started in. *)
Envs == [cacheEnabled : BOOLEAN, apiAuthToken : {Undefined, "t1"}]

InitWeb == \E e \in Envs : InitWith(e)

(* What a request brings for authenticate: nothing, or the token t1. *)
Credentials ==
    {[header |-> NoHeader, query |-> Undefined],
     [header |-> [scheme |-> "Bearer ", rest |-> "t1"], query |-> Undefined]}

(* Request bodies that pass validateImageGeneration. *)
Bodies == {[prompt |-> <<"s">>, options |-> NoOptions],
           [prompt |-> <<"s", "s">>, options |-> NoOptions]}

(* A request body that validateImageGeneration finds fault with: topK is   *)
(* 0.  Its prompt is the prompt of a valid body, and with `topK || 40` in  *)
(* generateKey its key is the key of that body.                            *)
InvalidBodies == {[prompt |-> <<"s">>, options |-> [NoOptions EXCEPT !.topK = "0"]]}

(* The topK texts by value. *)
TopKValue == ("0" :> 0) @@ ("40" :> 40)

(* validateImageGeneration: the errors the validators collect.  The prompt *)
(* is trimmed and must have 1 to 5000 characters; topK is optional and     *)
(* must be an integer from 1 to 100; temperature and topP are optional     *)
(* and every text the bodies have for them is in range.                    *)
validateImageGeneration(body) ==
    {f \in {"prompt"} : Len(Trim(body.prompt)) \notin 1..5000}
    \cup {f \in {"topK"} : /\ body.options.topK # Undefined
                          /\ TopKValue[body.options.topK] \notin 1..100}

(* handleValidationErrors: 400 when there are errors, next() (0) otherwise. *)
handleValidationErrors(errors) == IF errors # {} THEN 400 ELSE 0

(* The result member of a response: how generateImage ended ("image": no   *)
(* error member, "fallback": the placeholder with its error member) and    *)
(* the request whose call produced the file it names.                      *)
Payload(outcome, r) == [outcome |-> outcome, from |-> r]

(* A response without a result member. *)
NoPayload == Payload("none", 0)

(* The options the handler builds from the body. *)
HandlerOptions(body) ==
    [model |-> OrDefault(body.options.model, "gemini-2.0-flash-preview-image-generation"),
     temperature |-> IF body.options.temperature # Undefined
                     THEN body.options.temperature ELSE "1",
     topP |-> IF body.options.topP # Undefined THEN body.options.topP ELSE "0.95",
     topK |-> IF body.options.topK # Undefined THEN body.options.topK ELSE "40"]

WebRequest(route, key) == [route |-> route, key |-> key]

(* res.status(status).json(...): the status, the `cached` member and the   *)
(* result.                                                                 *)
WebResponse(r, status, cached, result) ==
    [req |-> r, status |-> status, cached |-> cached, result |-> result]

(* A request is received while the server is below MaxRequests requests. *)
Accepting == Len(webReqs) < MaxRequests

(* Variant: the cache is looked up ahead of the two middlewares. *)
GenerateImageLookupFirst(body, cred) ==
    LET r == Len(webReqs) + 1
        did == authenticate(env.apiAuthToken, cred.header, cred.query)
        invalid == handleValidationErrors(validateImageGeneration(body))
        cacheKey == generateKey(body.prompt, HandlerOptions(body))
        cachedResult == get(cache, cacheKey, now)
    IN  /\ Accepting
        /\ webReqs' = Append(webReqs, WebRequest("generate-image", cacheKey))
        /\ IF env.cacheEnabled /\ cacheKey \in DOMAIN cachedResult.cache
           THEN /\ webOut' = Append(webOut, WebResponse(r, 200, TRUE, cachedResult.result))
                /\ UNCHANGED <<cache, pending>>
           ELSE IF did.nexts = 0
           THEN /\ webOut' = Append(webOut, WebResponse(r, did.statuses[1], FALSE, NoPayload))
                /\ cache' = IF env.cacheEnabled THEN cachedResult.cache ELSE cache
                /\ UNCHANGED pending
           ELSE IF invalid # 0
           THEN /\ webOut' = Append(webOut, WebResponse(r, invalid, FALSE, NoPayload))
                /\ cache' = IF env.cacheEnabled THEN cachedResult.cache ELSE cache
                /\ UNCHANGED pending
           ELSE /\ cache' = IF env.cacheEnabled THEN cachedResult.cache ELSE cache
                /\ pending' = pending \cup {r}
                /\ UNCHANGED webOut
        /\ UNCHANGED <<serverVars, now, lastOp, lastSet, keyCall, authCall, env, heap>>

(* POST /api/generate-image up to its first response or its await:         *)
(* authenticate, handleValidationErrors, the cache lookup, the call of     *)
(* generateImage.  `if (cachedResult)`: get returned the value of the      *)
(* entry, an object, which is when it left the key in the map.             *)
GenerateImage(body, cred) ==
    LET r == Len(webReqs) + 1
        did == authenticate(env.apiAuthToken, cred.header, cred.query)
        invalid == handleValidationErrors(validateImageGeneration(body))
        cacheKey == generateKey(body.prompt, HandlerOptions(body))
        cachedResult == get(cache, cacheKey, now)
    IN  /\ Accepting
        /\ webReqs' = Append(webReqs, WebRequest("generate-image", cacheKey))
        /\ IF did.nexts = 0
           THEN /\ webOut' = Append(webOut, WebResponse(r, did.statuses[1], FALSE, NoPayload))
                /\ UNCHANGED <<cache, pending>>
           ELSE IF invalid # 0
           THEN /\ webOut' = Append(webOut, WebResponse(r, invalid, FALSE, NoPayload))
                /\ UNCHANGED <<cache, pending>>
           ELSE IF env.cacheEnabled /\ cacheKey \in DOMAIN cachedResult.cache
           THEN /\ webOut' = Append(webOut, WebResponse(r, 200, TRUE, cachedResult.result))
                /\ UNCHANGED <<cache, pending>>
           ELSE /\ cache' = IF env.cacheEnabled THEN cachedResult.cache ELSE cache
                /\ pending' = pending \cup {r}
                /\ UNCHANGED webOut
        /\ UNCHANGED <<serverVars, now, lastOp, lastSet, keyCall, authCall, env, heap>>

(* Variant: the result is stored whether or not it carries an error. *)
StoreAlways(c, k, result, t) ==
    IF env.cacheEnabled THEN set(c, k, result, t, t) ELSE c

(* `if (cacheEnabled && !result.error) responseCache.set(cacheKey, response)`, *)
(* both clock readings of the set taken at t.                              *)
Store(c, k, result, t) ==
    IF env.cacheEnabled /\ result.outcome = "image" THEN set(c, k, result, t, t) ELSE c

(* generateImage settles for a suspended handler: the result is stored and *)
(* sent, or the catch answers 500.                                         *)
GenerateImageResume ==
    \E r \in pending, outcome \in BackendOutcomes :
        /\ pending' = pending \ {r}
        /\ IF outcome = "rejected"
           THEN /\ webOut' = Append(webOut, WebResponse(r, 500, FALSE, NoPayload))
                /\ UNCHANGED cache
           ELSE /\ cache' = Store(cache, webReqs[r].key, Payload(outcome, r), now)
                /\ webOut' = Append(webOut, WebResponse(r, 200, FALSE, Payload(outcome, r)))
        /\ UNCHANGED <<serverVars, now, lastOp, lastSet, keyCall, authCall, env, webReqs, heap>>

(* Variant: the route without its authenticate middleware. *)
ClearCacheUnauthenticated(cred) ==
    /\ Accepting
    /\ webReqs' = Append(webReqs, WebRequest("cache/clear", <<>>))
    /\ cache' = EmptyMap
    /\ webOut' = Append(webOut, WebResponse(Len(webReqs) + 1, 200, FALSE, NoPayload))
    /\ UNCHANGED <<serverVars, now, lastOp, lastSet, keyCall, authCall, env, pending, heap>>

(* POST /api/cache/clear: authenticate, then responseCache.clear(). *)
ClearCache(cred) ==
    LET r == Len(webReqs) + 1
        did == authenticate(env.apiAuthToken, cred.header, cred.query)
    IN  /\ Accepting
        /\ webReqs' = Append(webReqs, WebRequest("cache/clear", <<>>))
        /\ IF did.nexts = 0
           THEN /\ webOut' = Append(webOut, WebResponse(r, did.statuses[1], FALSE, NoPayload))
                /\ UNCHANGED cache
           ELSE /\ cache' = EmptyMap
                /\ webOut' = Append(webOut, WebResponse(r, 200, FALSE, NoPayload))
        /\ UNCHANGED <<serverVars, now, lastOp, lastSet, keyCall, authCall, env, pending, heap>>

(* The setInterval callback of the cache module. *)
CleanupInterval ==
    /\ cache' = cleanup(cache, now)
    /\ cache' # cache
    /\ UNCHANGED <<serverVars, now, lastOp, lastSet, webVars, heap>>

NextWeb ==
    \/ \E body \in Bodies \cup InvalidBodies, cred \in Credentials :
           GenerateImage(body, cred)
    \/ GenerateImageResume
    \/ \E cred \in Credentials : ClearCache(cred)
    \/ CleanupInterval
    \/ Tick

SpecWeb == InitWeb /\ [][NextWeb]_vars

----------------------------------------------------------------------------
(* The output stream *)

(* The line feed character, and what JSON.stringify writes for it inside a *)
(* string.                                                                 *)
LF == "LF"
EscapedLF == "\\n"

(* The characters of the string members of a message, in pieces: the text  *)
(* of a tools/call result has line feeds in it.                            *)
StringMembers(line) ==
    IF line.kind = "response" /\ line.result \in {"content", "content+note"}
    THEN <<"Image generated successfully!", LF, LF, "Prompt: ...">>
    ELSE <<>>

(* JSON.stringify(message): one object, control characters escaped. *)
JsonStringify(line) ==
    LET members == StringMembers(line)
    IN  <<"{">> \o [k \in DOMAIN members |->
                       IF members[k] = LF THEN EscapedLF ELSE members[k]] \o <<"}">>

(* Variant: the message is written without its line feed. *)
StdoutWriteUnterminated(i) ==
    LET text == JsonStringify(out[i])
    IN  [k \in DOMAIN text |-> [msg |-> i, ch |-> text[k]]]

(* process.stdout.write(JSON.stringify(message) + '\n') for the i-th        *)
(* message written: the characters handed to the stream in that one call,  *)
(* each tagged with the call.                                              *)
StdoutWrite(i) ==
    LET text == JsonStringify(out[i]) \o <<LF>>
    IN  [k \in DOMAIN text |-> [msg |-> i, ch |-> text[k]]]

(* The characters on stdout after the first n writes. *)
RECURSIVE Stdout(_)
Stdout(n) == IF n = 0 THEN <<>> ELSE Stdout(n - 1) \o StdoutWrite(n)

(* The server fed one text in every possible fragmentation. *)
NextFraming ==
    \/ StdinChunk
    \/ RunMicrotask

SpecFraming == Init /\ [][NextFraming]_vars

----------------------------------------------------------------------------
(* Properties *)

(* A Request carries an id member; a Notification is an object without.    *)
IsRequest(m) == m.form = "object" /\ m.id # Undefined
IsNotification(m) == m.form = "object" /\ m.id = Undefined

(* The output lines, and the responses, written by the handling of line r. *)
LinesFor(r) == {i \in DOMAIN out : out[i].req = r}
ResponsesFor(r) == {i \in LinesFor(r) : out[i].kind = "response"}

Queued(r) == \E k \in DOMAIN microq : microq[k].req = r

(* A tools/call that reaches the await of generateImage. *)
CallsBackend(m) ==
    m.form = "object" /\ m.jsonrpc = "2.0" /\ m.method = "tools/call" /\ m.params = Prompt

UniqueId(r) == \A q \in DOMAIN reqs : q # r => reqs[q].id # reqs[r].id

(* C1: for every dispatched Request, at most one response line is written  *)
(* for it, that line has exactly one of result and error, and when no      *)
(* other line of the input has its (non-null) id at most one output line   *)
(* carries that id.                                                        *)
C1_AtMostOneResponse ==
    \A r \in DOMAIN reqs :
        IsRequest(reqs[r]) =>
            /\ Cardinality(ResponsesFor(r)) <= 1
            /\ \A i \in ResponsesFor(r) : (out[i].result # "none") # (out[i].code # 0)
            /\ (UniqueId(r) /\ reqs[r].id # Null) =>
                   Cardinality({i \in DOMAIN out : out[i].id = reqs[r].id}) <= 1

(* Two Requests answered, one with a result and one with an error. *)
C1_Witness ==
    \E r, q \in DOMAIN reqs :
        /\ IsRequest(reqs[r]) /\ IsRequest(reqs[q])
        /\ \E i \in ResponsesFor(r) : out[i].result # "none"
        /\ \E j \in ResponsesFor(q) : out[j].code # 0

(* C2: every Request is answered: once nothing is pending (the microtask   *)
(* queue is drained and no backend call is in flight) every dispatched     *)
(* Request has a response line, whatever its method.                       *)
C2_EveryRequestAnswered ==
    (LoopIdle /\ awaiting = {}) =>
        \A r \in DOMAIN reqs : IsRequest(reqs[r]) => ResponsesFor(r) # {}

(* C3: the handling of a Notification (an object without id) writes no     *)
(* output line, whatever its method and jsonrpc value.                     *)
C3_NotificationsSilent ==
    \A i \in DOMAIN out : ~IsNotification(reqs[out[i].req])

(* C4: the response written for a Request carries the id of the Request,   *)
(* equal in type and value, on every path.                                 *)
C4_IdEchoed ==
    \A r \in DOMAIN reqs :
        IsRequest(reqs[r]) => \A i \in ResponsesFor(r) : out[i].id = reqs[r].id

IsInitialize(m) == IsRequest(m) /\ m.jsonrpc = "2.0" /\ m.method = "initialize"

(* C5: every initialize Request gets its result, and at most one           *)
(* notifications/initialized line is written over the whole run.           *)
C5_OneInitializedNotification ==
    /\ \A r \in DOMAIN reqs :
           IsInitialize(reqs[r]) => \E i \in ResponsesFor(r) : out[i].result = "init"
    /\ Cardinality({i \in DOMAIN out : out[i].kind = "notification"}) <= 1

(* C6: every notifications/initialized line comes after the complete       *)
(* result line of the initialize it belongs to.                            *)
C6_NotificationAfterResult ==
    \A j \in DOMAIN out :
        out[j].kind = "notification" =>
            \E i \in 1..(j - 1) :
                out[i].req = out[j].req /\ out[i].kind = "response" /\ out[i].result = "init"

C6_Witness == \E j \in DOMAIN out : out[j].kind = "notification"

(* C7: of two tools/call whose backend calls settled, the one that settled *)
(* first is answered first; each response carries the id of its own        *)
(* Request; and both are written as soon as the microtask queue drains.    *)
C7_CompletionOrder ==
    /\ \A p, q \in DOMAIN settled :
           (p < q /\ ResponsesFor(settled[q]) # {}) =>
               \E i \in ResponsesFor(settled[p]), j \in ResponsesFor(settled[q]) : i < j
    /\ \A p \in DOMAIN settled :
           \A i \in ResponsesFor(settled[p]) : out[i].id = reqs[settled[p]].id
    /\ microq = <<>> => \A p \in DOMAIN settled : ResponsesFor(settled[p]) # {}

(* Ids 1 and 2 sent in that order, both in flight, 2 settled first: the    *)
(* line for 2 is out before the line for 1.                                *)
C7_Witness ==
    /\ Len(reqs) = 2 /\ reqs[1].id = "1" /\ reqs[2].id = "2"
    /\ settled = <<2, 1>>
    /\ Len(out) = 2 /\ out[1].id = "2" /\ out[2].id = "1"

(* C8: a tools/call in flight does not hold up the input: with the loop    *)
(* idle and a call awaiting the backend the next line can be dispatched,   *)
(* and a Request that calls no backend is answered, or its answer is on    *)
(* the microtask queue, whatever is in flight.                             *)
C8_NoHeadOfLineBlocking ==
    /\ (LoopIdle /\ awaiting # {} /\ LinesLeft > 0) =>
           ENABLED (StdinData /\ Len(reqs') > Len(reqs))
    /\ \A r \in DOMAIN reqs :
           (/\ IsRequest(reqs[r])
            /\ ~CallsBackend(reqs[r])
            /\ ~(reqs[r].jsonrpc = "2.0" /\ reqs[r].method = "notifications/initialized"))
               => (ResponsesFor(r) # {} \/ Queued(r))

(* A tools/list sent after a tools/call is answered while the call waits. *)
C8_Witness ==
    /\ Len(reqs) = 2 /\ 1 \in awaiting
    /\ IsRequest(reqs[2]) /\ reqs[2].method = "tools/list"
    /\ \E i \in ResponsesFor(2) : out[i].result = "tools"

(* C9: no input line ends the process: it runs until the input ends.       *)
C9_NoLineTerminates == exited \in {"running", "exit(0) end"}

IsCallWithoutParams(m) ==
    IsRequest(m) /\ m.jsonrpc = "2.0" /\ m.method = "tools/call" /\ ~m.params.present

(* C10: a tools/call Request without params is answered by exactly one     *)
(* line, with code -32603, the failure detail and the id of the Request,   *)
(* and its handling leaves no rejection behind.                            *)
C10_InternalErrorResponse ==
    /\ \A r \in DOMAIN reqs :
           (IsCallWithoutParams(reqs[r]) /\ ~Queued(r)) =>
               /\ Cardinality(ResponsesFor(r)) = 1
               /\ \A i \in ResponsesFor(r) :
                      /\ out[i].code = -32603
                      /\ out[i].data # "none"
                      /\ out[i].id = reqs[r].id
    /\ (\A r \in DOMAIN reqs : reqs[r].form # "null") =>
           (~rejected /\ exited \in {"running", "exit(0) end"})

(* The backend was called for line r. *)
Called(r) == r \in awaiting \/ \E p \in DOMAIN settled : settled[p] = r

Scheduled(r) == \E k \in DOMAIN timers : timers[k] = r

(* C11: a non-blank line that is no JSON text gets exactly one output      *)
(* line, the error -32700 with id null; it leaves no reaction, timer or    *)
(* backend call behind, and dispatching it changes nothing of the server   *)
(* state but that one line, so the lines after it meet the same state.     *)
C11_ParseErrorOnly ==
    /\ \A r \in DOMAIN reqs :
           reqs[r].form = "unparsable" =>
               /\ Cardinality(LinesFor(r)) = 1
               /\ \A i \in LinesFor(r) :
                      /\ out[i].kind = "response"
                      /\ out[i].id = Null
                      /\ out[i].code = -32700
                      /\ out[i].result = "none"
               /\ ~Queued(r) /\ ~Called(r) /\ ~Scheduled(r)
    /\ LET st == DispatchLine(<<Unparsable>>, State)
       IN  /\ st.initialized = initialized
           /\ st.microq = microq
           /\ st.awaiting = awaiting
           /\ st.timers = timers
           /\ Len(st.out) = Len(out) + 1
           /\ SubSeq(st.out, 1, Len(out)) = out

(* An unparsable line, then a tools/list that is answered as ever. *)
C11_Witness ==
    /\ Len(reqs) = 2 /\ reqs[1].form = "unparsable"
    /\ reqs[2].method = "tools/list" /\ IsRequest(reqs[2])
    /\ Len(out) = 2 /\ out[1].code = -32700 /\ out[2].result = "tools"

(* A JSON value that is no well-formed JSON-RPC message: not an object,    *)
(* a jsonrpc other than "2.0", or no method.                               *)
Malformed(m) ==
    \/ m.form \in {"null", "scalar"}
    \/ m.form = "object" /\ (m.jsonrpc # "2.0" \/ m.method = Undefined)

ExtractedId(m) == IF IsRequest(m) THEN m.id ELSE Null

(* C12: a line that parses but is malformed is answered with code -32600   *)
(* and the id of the message when it has one (null otherwise).             *)
C12_MalformedAnswered ==
    \A r \in DOMAIN reqs :
        (Malformed(reqs[r]) /\ ~Queued(r)) =>
            \E i \in ResponsesFor(r) :
                out[i].code = -32600 /\ out[i].id = ExtractedId(reqs[r])

KnownMethods == {"initialize", "notifications/initialized", "tools/list",
                 "resources/list", "prompts/list", "tools/call"}

IsUnknownMethodRequest(m) ==
    IsRequest(m) /\ m.jsonrpc = "2.0" /\ m.method \notin KnownMethods

(* C13: a Request with jsonrpc "2.0" and a method that is none of the six  *)
(* supported ones is answered by one error response with code -32601 and   *)
(* the id of the Request, the id null included.                            *)
C13_MethodNotFound ==
    \A r \in DOMAIN reqs :
        (IsUnknownMethodRequest(reqs[r]) /\ ~Queued(r)) =>
            /\ Cardinality(LinesFor(r)) = 1
            /\ \A i \in LinesFor(r) :
                   /\ out[i].kind = "response"
                   /\ out[i].code = -32601
                   /\ out[i].result = "none"
                   /\ out[i].id = reqs[r].id

(* An unknown method with id null, answered -32601 with id null. *)
C13_Witness ==
    \E r \in DOMAIN reqs :
        /\ IsUnknownMethodRequest(reqs[r]) /\ reqs[r].id = Null
        /\ \E i \in LinesFor(r) : out[i].code = -32601 /\ out[i].id = Null

IsToolsCallRequest(m) ==
    IsRequest(m) /\ m.jsonrpc = "2.0" /\ m.method = "tools/call" /\ m.params.present

(* C14: a tools/call Request that names no known tool is answered by one   *)
(* error response with code -32601 and its id, and the backend is never    *)
(* called for it.                                                          *)
C14_UnknownTool ==
    \A r \in DOMAIN reqs :
        (IsToolsCallRequest(reqs[r]) /\ reqs[r].params.name # "generate_image") =>
            /\ ~Called(r)
            /\ ~Queued(r) =>
                   /\ Cardinality(LinesFor(r)) = 1
                   /\ \A i \in LinesFor(r) :
                          /\ out[i].code = -32601
                          /\ out[i].result = "none"
                          /\ out[i].id = reqs[r].id

C14_Witness ==
    \E r \in DOMAIN reqs :
        /\ IsToolsCallRequest(reqs[r]) /\ reqs[r].params.name = "other_tool"
        /\ \E i \in LinesFor(r) : out[i].code = -32601

C16_BackendFailureIsError ==
    \A p \in DOMAIN settled :
        (outcomes[p] \in {"fallback", "rejected"} /\ ~Queued(settled[p])) =>
            \A i \in LinesFor(settled[p]) :
                out[i].code = -32000 /\ out[i].result = "none"

(* C16: a generate_image call whose generateImage rejects is answered by   *)
(* one error response with code -32000 and no result; one whose            *)
(* generateImage returns the placeholder artifact with an error field is   *)
(* answered by one result whose text carries the failure as a note; in     *)
(* neither case does the promise of handleRequest reject, so the           *)
(* dispatcher goes on serving.                                             *)
C16_BackendFailureSurfaced ==
    /\ \A p \in DOMAIN settled :
           LET r == settled[p] IN
           (outcomes[p] \in {"fallback", "rejected"} /\ ~Queued(r)) =>
               /\ Cardinality(LinesFor(r)) = 1
               /\ \A i \in LinesFor(r) :
                      /\ out[i].kind = "response"
                      /\ out[i].id = reqs[r].id
                      /\ outcomes[p] = "rejected" =>
                             out[i].code = -32000 /\ out[i].result = "none"
                      /\ outcomes[p] = "fallback" =>
                             out[i].code = 0 /\ out[i].result = "content+note"
    /\ \A k \in DOMAIN microq :
           microq[k].type \in {"rejected", "catch"} => ~Called(microq[k].req)

(* A rejected call answered -32000, and a call served after it whose       *)
(* placeholder result carries the note.                                    *)
C16_Witness ==
    \E p, q \in DOMAIN settled : \E i, j \in DOMAIN out :
        /\ outcomes[p] = "rejected" /\ outcomes[q] = "fallback"
        /\ i < j
        /\ out[i].req = settled[p] /\ out[i].code = -32000
        /\ out[j].req = settled[q] /\ out[j].result = "content+note"

(* A line that reaches case 'initialize': an object with version "2.0".    *)
ReachesInitialize(m) ==
    m.form = "object" /\ m.jsonrpc = "2.0" /\ m.method = "initialize"

(* C17: `initialized` starts false, is never reset, becomes true only in   *)
(* a step that handles an initialize line, and so is true exactly when     *)
(* such a line has been handled; no other line and no parse error changes  *)
(* it.                                                                     *)
C17_InitializedFlag ==
    /\ ~initialized
    /\ [][/\ initialized => initialized'
          /\ (initialized' # initialized) =>
                 \E r \in (Len(reqs) + 1)..Len(reqs') : ReachesInitialize(reqs'[r])]_vars
    /\ [](initialized <=> \E r \in DOMAIN reqs : ReachesInitialize(reqs[r]))

(* The flag is set, and a later line of another kind has been handled.     *)
C17_Witness ==
    /\ initialized
    /\ \E r1, r2 \in DOMAIN reqs :
           /\ r1 < r2
           /\ ReachesInitialize(reqs[r1])
           /\ ~ReachesInitialize(reqs[r2])
           /\ ~Queued(r2)

(* The complete lines of a text that are not blank, in order. *)
NonBlankLines(text) ==
    LET lines == Split(text)
    IN  SelectSeq(SubSeq(lines, 1, Len(lines) - 1), LAMBDA l : ~TrimsToEmpty(l))

(* C18: however the text fed so far was cut into chunks, the lines         *)
(* dispatched are the non-blank complete lines of the whole text, in       *)
(* order, and the buffer holds the text after its last newline.            *)
C18_FragmentationIndependent ==
    LET text == Text(stream)
        nb == NonBlankLines(text)
    IN  /\ reqs = [k \in 1..Len(nb) |-> Parse(nb[k])]
        /\ buffer = Split(text)[Len(Split(text))]

(* Two lines dispatched from a text that came with an empty chunk, a chunk *)
(* ending inside a line that a later chunk completed, and a chunk holding  *)
(* two newlines.                                                           *)
C18_Witness ==
    /\ Len(reqs) = 2 /\ reqs[1] # reqs[2]
    /\ \E c \in DOMAIN stream : stream[c] = <<>>
    /\ \E c \in DOMAIN stream :
           /\ stream[c] # <<>> /\ c < Len(stream)
           /\ stream[c][Len(stream[c])] \notin {NL, Blank}
    /\ \E c \in DOMAIN stream :
           Cardinality({k \in DOMAIN stream[c] : stream[c][k] = NL}) >= 2

(* C19: while the clock has not passed the deadline stored by the latest   *)
(* set(k, v) (no clear() since), get(k) returns v, at the deadline itself  *)
(* included; once the clock has passed it, get(k) returns a miss, and a    *)
(* get(k) made then leaves no entry for k in the map.                      *)
C19_GetHonoursExpiry ==
    /\ \A k \in DOMAIN lastSet :
           get(cache, k, now).result =
               IF now <= lastSet[k].expiresAt THEN lastSet[k].value ELSE Null
    /\ \A k \in Keys \ DOMAIN lastSet : get(cache, k, now).result = Null
    /\ lastOp.op = "get" =>
           LET k == lastOp.key IN
           /\ lastOp.result =
                  IF k \in DOMAIN lastSet /\ lastOp.now <= lastSet[k].expiresAt
                  THEN lastSet[k].value ELSE Null
           /\ lastOp.result = Null => k \notin DOMAIN cache
           /\ lastOp.result # Null => cache = lastOp.before

(* A hit exactly at the deadline. *)
C19_Witness ==
    /\ lastOp.op = "get"
    /\ lastOp.key \in DOMAIN lastSet
    /\ lastOp.now = lastSet[lastOp.key].expiresAt
    /\ lastOp.result = lastSet[lastOp.key].value

(* C20: cleanup() removes the entries whose deadline the clock has passed  *)
(* and no other, leaves the remaining entries as they were, and the size   *)
(* getStats() reports afterwards is the number of entries that had not     *)
(* expired, smaller than before when some entry had.                       *)
C20_CleanupExact ==
    lastOp.op = "cleanup" =>
        LET before == lastOp.before
            expired == {k \in DOMAIN before : lastOp.now > before[k].expiresAt}
            kept == DOMAIN before \ expired
        IN  /\ DOMAIN cache = kept
            /\ \A k \in kept : cache[k] = before[k]
            /\ getStats(cache, now).size = Cardinality(kept)
            /\ expired # {} => getStats(cache, now).size < getStats(before, lastOp.now).size

(* A sweep that took one entry and kept another that was at its deadline. *)
C20_Witness ==
    /\ lastOp.op = "cleanup"
    /\ \E k \in DOMAIN lastOp.before : k \notin DOMAIN cache
    /\ \E k \in DOMAIN cache : cache[k].expiresAt = lastOp.now

(* C28: when the process has ended on the end of the input, every          *)
(* tools/call that reached the backend has run to completion and its       *)
(* response has been written.                                              *)
C28_InFlightCompletesBeforeExit ==
    exited = "exit(0) end" =>
        \A r \in DOMAIN reqs :
            Called(r) => r \notin awaiting /\ ResponsesFor(r) # {}

(* C30: every entry of the cache has expiresAt = createdAt + ttl.          *)
C30_ExpiresAtIsCreatedAtPlusTtl ==
    \A k \in DOMAIN cache : cache[k].expiresAt = cache[k].createdAt + Ttl

(* Two prompts that differ only in letter case and in leading or trailing  *)
(* white space: each is white space, a core, white space, and the cores    *)
(* agree letter by letter up to case.                                      *)
SameLetter(x, y) == x = y \/ {x, y} = {"s", "S"}

SamePrompt(p, q) ==
    \E a \in 0..Len(p), c \in 0..Len(q) :
        \E n \in 0..Len(p) - a :
            /\ c + n <= Len(q)
            /\ \A i \in 1..a : p[i] = " "
            /\ \A i \in (a + n + 1)..Len(p) : p[i] = " "
            /\ \A i \in 1..c : q[i] = " "
            /\ \A i \in (c + n + 1)..Len(q) : q[i] = " "
            /\ \A i \in 1..n : SameLetter(p[a + i], q[c + i])

(* A parameter given at its default in one request and left out, or given  *)
(* alike, in the other.                                                    *)
SameParameter(v, w, default) == v = w \/ {v, w} = {Undefined, default}

SameOptions(o, q) ==
    /\ SameParameter(o.model, q.model, "default")
    /\ SameParameter(o.temperature, q.temperature, "1")
    /\ SameParameter(o.topP, q.topP, "0.95")
    /\ SameParameter(o.topK, q.topK, "40")

(* C21: a request that differs from the one keyed last only in the case or *)
(* the outer white space of the prompt, or in giving a parameter at its    *)
(* default instead of leaving it out, gets the same key.                   *)
C21_KeyCollapses ==
    keyCall.called =>
        \A prompt \in Prompts(MaxPrompt), options \in Options :
            (SamePrompt(prompt, keyCall.prompt) /\ SameOptions(options, keyCall.options)) =>
                generateKey(prompt, options) = keyCall.key

(* key(" S", {temperature: 1.0}) computed, equal to key("s", {}). *)
C21_Witness ==
    /\ keyCall.called
    /\ keyCall.prompt = <<" ", "S">>
    /\ keyCall.options = [NoOptions EXCEPT !.temperature = "1"]
    /\ keyCall.key = generateKey(<<"s">>, NoOptions)

(* The value a request asks for: the one it gives, the default otherwise.  *)
Asked(v, default) == IF v = Undefined THEN default ELSE v

(* C22: a request that differs from the one keyed last in the normalized   *)
(* prompt, the model, temperature, topP or topK gets another key.          *)
C22_KeySeparates ==
    keyCall.called =>
        \A prompt \in Prompts(MaxPrompt), options \in Options :
            (\/ ~SamePrompt(prompt, keyCall.prompt)
             \/ Asked(options.model, "default") # Asked(keyCall.options.model, "default")
             \/ Asked(options.temperature, "1") # Asked(keyCall.options.temperature, "1")
             \/ Asked(options.topP, "0.95") # Asked(keyCall.options.topP, "0.95")
             \/ Asked(options.topK, "40") # Asked(keyCall.options.topK, "40")) =>
                generateKey(prompt, options) # keyCall.key

(* The request carries a Bearer token in its Authorization header. *)
HasBearerToken(c) ==
    c.header # NoHeader /\ c.header.scheme = "Bearer " /\ c.header.rest # ""

HasQueryToken(c) == c.query \notin {Undefined, ""}

(* C26: authenticate calls next() exactly when no token is configured or   *)
(* the token provided is the configured one, answers 401 when a token is   *)
(* configured and none is provided, 403 when the one provided differs, and *)
(* always does exactly one of calling next() and answering.                *)
C26_AuthenticateOutcome ==
    authCall.called =>
        LET c == authCall
            open == c.configured \in {Undefined, ""}
            none == ~HasBearerToken(c) /\ ~HasQueryToken(c)
            provided == IF HasBearerToken(c) THEN c.header.rest ELSE c.query
        IN  /\ c.nexts + Len(c.statuses) = 1
            /\ c.nexts = 1 <=> (open \/ (~none /\ provided = c.configured))
            /\ (~open /\ none) => c.statuses = <<401>>
            /\ (~open /\ ~none /\ provided # c.configured) => c.statuses = <<403>>

(* A header that is no Bearer header and no query token: 401. *)
C26_Witness ==
    /\ authCall.called
    /\ authCall.configured = "t1"
    /\ authCall.header = [scheme |-> "Basic ", rest |-> "t1"]
    /\ authCall.query = Undefined
    /\ authCall.statuses = <<401>>

(* C27: for a request with a Bearer token in the header, authenticate does *)
(* the same whatever the query parameter holds.                            *)
C27_HeaderTakesPriority ==
    (authCall.called /\ HasBearerToken(authCall)) =>
        \A query \in QueryTokens :
            authenticate(authCall.configured, authCall.header, query)
                = Did(authCall.nexts, authCall.statuses)

(* The right token in the header, a wrong one in the query: next(). *)
C27_Witness ==
    /\ authCall.called
    /\ authCall.configured = "t1"
    /\ authCall.header = [scheme |-> "Bearer ", rest |-> "t1"]
    /\ authCall.query = "t2"
    /\ authCall.nexts = 1

(* C23: the cache never holds the placeholder result, so every result     *)
(* served from the cache is a clean success; a generation that throws      *)
(* stores nothing.                                                         *)
C23_OnlyCleanSuccessCached ==
    /\ \A k \in DOMAIN cache : cache[k].value.outcome = "image"
    /\ \A i \in DOMAIN webOut : webOut[i].cached => webOut[i].result.outcome = "image"
    /\ \A i \in DOMAIN webOut :
           (webOut[i].status = 500 /\ webReqs[webOut[i].req].key \in DOMAIN cache) =>
               \E j \in DOMAIN webOut :
                   /\ j # i
                   /\ webReqs[webOut[j].req].key = webReqs[webOut[i].req].key
                   /\ webOut[j].result.outcome = "image" /\ ~webOut[j].cached

(* A placeholder result was sent and its key is not in the cache, while    *)
(* another request was served from the cache.                              *)
C23_Witness ==
    /\ \E i \in DOMAIN webOut :
           /\ webOut[i].result.outcome = "fallback"
           /\ webReqs[webOut[i].req].key \notin DOMAIN cache
    /\ \E j \in DOMAIN webOut : webOut[j].cached

(* C24: no two requests with the same key are at the await of              *)
(* generateImage at the same time.                                         *)
C24_AtMostOneFreshCall ==
    env.cacheEnabled =>
        \A r1, r2 \in pending : webReqs[r1].key = webReqs[r2].key => r1 = r2

(* The caller passes the authentication check: no token is configured, or *)
(* the request carries the configured one.                                 *)
PassesAuthentication(cred) ==
    \/ env.apiAuthToken = Undefined
    \/ /\ cred.header # NoHeader
       /\ cred.header.scheme = "Bearer "
       /\ cred.header.rest = env.apiAuthToken
    \/ cred.query = env.apiAuthToken

(* C25: a POST /api/cache/clear that authenticate lets through leaves the  *)
(* cache empty, whatever it held; one that authenticate answers with 401   *)
(* or 403 leaves the cache as it was.                                      *)
C25_ClearOnlyWhenAuthenticated ==
    [][\A cred \in Credentials :
          ClearCache(cred) =>
              LET resp == webOut'[Len(webOut')]
              IN  IF PassesAuthentication(cred)
                  THEN cache' = EmptyMap /\ resp.status = 200
                  ELSE cache' = cache /\ resp.status \in {401, 403}]_vars

(* A clear request was refused while the cache held an entry, which is     *)
(* still there.                                                            *)
C25_Witness ==
    /\ webOut # <<>>
    /\ webReqs[webOut[Len(webOut)].req].route = "cache/clear"
    /\ webOut[Len(webOut)].status = 401
    /\ cache # EmptyMap

(* The stream cut at its line feeds, as a reader of the stream sees it. *)
RECURSIVE OutputLinesFrom(_, _, _)
OutputLinesFrom(bytes, i, cur) ==
    IF i > Len(bytes) THEN <<cur>>
    ELSE IF bytes[i].ch = LF THEN <<cur>> \o OutputLinesFrom(bytes, i + 1, <<>>)
    ELSE OutputLinesFrom(bytes, i + 1, Append(cur, bytes[i]))

OutputLines == OutputLinesFrom(Stdout(Len(out)), 1, <<>>)

(* C29: the output stream is the messages written, one per line: the i-th  *)
(* line holds the characters of the i-th message and of no other, one      *)
(* whole object, and nothing stands after the last line feed.              *)
C29_OneMessagePerLine ==
    LET lines == OutputLines
    IN  /\ Len(lines) = Len(out) + 1
        /\ lines[Len(lines)] = <<>>
        /\ \A i \in DOMAIN out :
               /\ lines[i] # <<>>
               /\ \A k \in DOMAIN lines[i] : lines[i][k].msg = i
               /\ lines[i][1].ch = "{"
               /\ lines[i][Len(lines[i])].ch = "}"
               /\ Cardinality({k \in DOMAIN lines[i] : lines[i][k].ch \in {"{", "}"}}) = 2

(* The result written in handleRequest, the deferred notification and a    *)
(* tools/call result whose text has line feeds are all on the stream.      *)
C29_Witness ==
    /\ \E i \in DOMAIN out : out[i].kind = "response" /\ out[i].result = "init"
    /\ \E i \in DOMAIN out : out[i].kind = "notification"
    /\ \E i \in DOMAIN out : out[i].kind = "response" /\ out[i].result = "content"

(* A line of white space only, the empty line included. *)
WhitespaceOnly(line) == SelectSeq(line, LAMBDA u : u # Blank) = <<>>

(* C35: whatever the chunking, the requests dispatched are the complete    *)
(* lines of the input that are not white space only, each once and in      *)
(* stream order; no output line stems from anything else; the buffer       *)
(* holds no newline and is the text after the last newline, which is not   *)
(* dispatched before its newline arrives.                                  *)
C35_LineFraming ==
    LET text == Text(stream)
        lines == Split(text)
        complete == SubSeq(lines, 1, Len(lines) - 1)
        dispatched == SelectSeq(complete, LAMBDA l : ~WhitespaceOnly(l))
    IN  /\ Len(reqs) = Len(dispatched)
        /\ \A k \in DOMAIN reqs : reqs[k] = Parse(dispatched[k])
        /\ \A i \in DOMAIN out : out[i].req \in DOMAIN dispatched
        /\ \A j \in DOMAIN microq : microq[j].req \in DOMAIN dispatched
        /\ \A k \in DOMAIN buffer : buffer[k] # NL
        /\ buffer = lines[Len(lines)]

(* A white-space-only line went by without a dispatch, the line after it   *)
(* was dispatched and answered, and the text after the last newline waits  *)
(* in the buffer.                                                          *)
C35_Witness ==
    LET lines == Split(Text(stream))
    IN  /\ Len(lines) = 3
        /\ WhitespaceOnly(lines[1])
        /\ ~WhitespaceOnly(lines[2])
        /\ Len(reqs) = 1
        /\ \E i \in DOMAIN out : out[i].req = 1
        /\ buffer # <<>>
        /\ ~WhitespaceOnly(buffer)

(* A Request answered without a backend call: a bad version, initialize,   *)
(* one of the three lists, or a method the server does not know.           *)
AnsweredWithoutBackend(m) ==
    /\ IsRequest(m)
    /\ \/ m.jsonrpc # "2.0"
       \/ m.method \in {"initialize", "tools/list", "resources/list", "prompts/list"}
       \/ m.method \notin KnownMethods

(* The responses of the earlier line stand before those of the later one. *)
AnsweredInOrder(r1, r2) ==
    \A i \in ResponsesFor(r1), j \in ResponsesFor(r2) : i < j

(* The claim as first stated: the responses of any two Requests answered   *)
(* without a backend call are written in the order of their lines.         *)
C36_ResponsesInInputOrder ==
    \A r1, r2 \in DOMAIN reqs :
        (/\ r1 < r2
         /\ AnsweredWithoutBackend(reqs[r1])
         /\ AnsweredWithoutBackend(reqs[r2])) => AnsweredInOrder(r1, r2)

(* C36: the responses of two Requests answered without a backend call are  *)
(* written in the order of their lines unless the later one is an          *)
(* initialize and the earlier one is not: the result of an initialize is   *)
(* written during dispatch, ahead of the responses still queued.           *)
C36_ResponsesInOrderButInitialize ==
    \A r1, r2 \in DOMAIN reqs :
        (/\ r1 < r2
         /\ AnsweredWithoutBackend(reqs[r1])
         /\ AnsweredWithoutBackend(reqs[r2])
         /\ IsInitialize(reqs[r1]) \/ ~IsInitialize(reqs[r2])) =>
            AnsweredInOrder(r1, r2)

(* Two lists, both answered, the responses in the order of their lines. *)
C36_Witness ==
    \E r1, r2 \in DOMAIN reqs :
        /\ r1 < r2
        /\ reqs[r1].method = "tools/list" /\ reqs[r2].method = "prompts/list"
        /\ AnsweredWithoutBackend(reqs[r1]) /\ AnsweredWithoutBackend(reqs[r2])
        /\ ResponsesFor(r1) # {} /\ ResponsesFor(r2) # {}

(* A message that parses to an object whose jsonrpc is not "2.0". *)
HasBadVersion(m) == m.form = "object" /\ m.jsonrpc # "2.0"

(* C37: a message whose jsonrpc is not "2.0" changes nothing of the        *)
(* server state: dispatching it leaves the flag, the timers and the calls  *)
(* in flight as they were and writes nothing at once, whatever its method; *)
(* no notification is ever written for it and the backend is never called  *)
(* for it.                                                                 *)
C37_BadVersionChangesNothing ==
    /\ \A m \in Messages :
           HasBadVersion(m) =>
               LET st == DispatchLine(<<m>>, State)
               IN  /\ st.initialized = initialized
                   /\ st.timers = timers
                   /\ st.awaiting = awaiting
                   /\ st.out = out
    /\ \A r \in DOMAIN reqs :
           HasBadVersion(reqs[r]) =>
               /\ ~Called(r)
               /\ ~Scheduled(r)
               /\ \A i \in LinesFor(r) :
                      out[i].kind = "response" /\ out[i].code = -32600

(* An initialize and a tools/call with a prompt, both with version "1.0",  *)
(* both answered, the flag still unset and the backend never called.       *)
C37_Witness ==
    /\ Len(reqs) = 2
    /\ HasBadVersion(reqs[1]) /\ reqs[1].method = "initialize"
    /\ HasBadVersion(reqs[2]) /\ reqs[2].method = "tools/call"
    /\ reqs[2].params = Prompt
    /\ LinesFor(1) # {} /\ LinesFor(2) # {}
    /\ ~initialized /\ timers = <<>> /\ awaiting = {} /\ settled = <<>>

(* The keys whose entry the clock has passed the deadline of. *)
ExpiredKeys == {k \in DOMAIN cache : now > cache[k].expiresAt}

(* C31: with the interval timer firing again and again, whenever the map   *)
(* holds expired entries it comes to hold none, lookups or no lookups.     *)
C31_ExpiredEntriesSwept == (ExpiredKeys # {}) ~> (ExpiredKeys = {})

(* A sweep found an entry past its deadline and removed it. *)
C31_Witness ==
    /\ lastOp.op = "cleanup"
    /\ \E k \in DOMAIN lastOp.before :
           /\ lastOp.now > lastOp.before[k].expiresAt
           /\ k \notin DOMAIN cache
    /\ ExpiredKeys = {}

(* C32: right after set(k, v) on a key that had an entry, the map holds    *)
(* for k the value v with createdAt = t and expiresAt = t + ttl for the    *)
(* time t of the call, get(k) returns v until that deadline has passed,    *)
(* and the entries of the other keys are what they were.                   *)
C32_SetOverwrites ==
    (lastOp.op = "set" /\ lastOp.key \in DOMAIN lastOp.before) =>
        LET k == lastOp.key
            v == lastSet[k].value
        IN  /\ k \in DOMAIN cache
            /\ cache[k].value = v
            /\ \E t \in lastOp.now..now :
                   /\ cache[k].createdAt = t
                   /\ cache[k].expiresAt = t + Ttl
            /\ \A t \in now..(MaxTime + Ttl) :
                   get(cache, k, t).result =
                       IF t <= cache[k].expiresAt THEN v ELSE Null
            /\ DOMAIN cache = DOMAIN lastOp.before
            /\ \A x \in DOMAIN cache \ {k} : cache[x] = lastOp.before[x]

(* C33: what get(k) returns has the content the value had when the latest  *)
(* set(k, value) stored it, whatever callers did since to the object they  *)
(* passed to set or to the object an earlier get returned.                 *)
C33_NoAliasing ==
    \A k \in DOMAIN lastSet :
        LET found == get(cache, k, now).result
        IN  found # Null => heap[found] = lastSet[k].value

(* The body is one validateImageGeneration finds no fault with: a prompt   *)
(* that is not white space only and, if any, the topK 40.                  *)
BodyIsValid(body) ==
    /\ \E i \in DOMAIN body.prompt : body.prompt[i] # " "
    /\ body.options.topK \in {Undefined, "40"}

(* C38: a POST /api/generate-image that fails authenticate or the body     *)
(* validation is answered at once with 401 or 403, or with 400 when only   *)
(* the body is at fault, by a response without result; it leaves the cache *)
(* as it was, an expired entry of its key included (no lookup, no insert), *)
(* and starts no backend call.                                             *)
C38_RejectedTouchesNothing ==
    [][\A body \in Bodies \cup InvalidBodies, cred \in Credentials :
          (/\ GenerateImage(body, cred)
           /\ ~PassesAuthentication(cred) \/ ~BodyIsValid(body)) =>
              /\ Len(webOut') = Len(webOut) + 1
              /\ LET resp == webOut'[Len(webOut')]
                 IN  /\ resp.status \in {400, 401, 403}
                     /\ resp.status = 400 <=> PassesAuthentication(cred)
                     /\ ~resp.cached
                     /\ resp.result = NoPayload
              /\ cache' = cache
              /\ pending' = pending]_vars

(* A request answered with 400 and one answered with 401, both for a key   *)
(* whose entry in the cache is past its deadline and still there.          *)
C38_Witness ==
    \E i, j \in DOMAIN webOut :
        /\ webOut[i].status = 400 /\ webOut[j].status = 401
        /\ \A x \in {i, j} :
               /\ webReqs[webOut[x].req].route = "generate-image"
               /\ webReqs[webOut[x].req].key \in DOMAIN cache
               /\ now > cache[webReqs[webOut[x].req].key].expiresAt

(* Response i is a clean success for key k: a result that generateImage    *)
(* produced for this very request, without an error member.                *)
CleanSuccess(i, k) ==
    /\ webOut[i].status = 200 /\ ~webOut[i].cached
    /\ webOut[i].result.outcome = "image"
    /\ webReqs[webOut[i].req].key = k

(* No POST /api/cache/clear has emptied the cache after response i. *)
NotClearedSince(i) ==
    \A j \in (i + 1)..Len(webOut) :
        ~(webReqs[webOut[j].req].route = "cache/clear" /\ webOut[j].status = 200)

(* C34: with caching enabled, a request that passes authenticate and the   *)
(* validation and finds an unexpired entry for its key is answered at once *)
(* with `cached: true` and the stored result, and no backend call is       *)
(* started; and when a clean success for its key was completed before it   *)
(* arrived, within the TTL (here: the clock has not passed the TTL, so     *)
(* every earlier success is within it) and with no clear in between, it is *)
(* answered from the cache with the result of that success.                *)
C34_ServedFromCache ==
    [][\A body \in Bodies, cred \in Credentials :
          (/\ GenerateImage(body, cred)
           /\ env.cacheEnabled
           /\ PassesAuthentication(cred)) =>
              LET k == webReqs'[Len(webReqs')].key
                  served(result) ==
                      /\ Len(webOut') = Len(webOut) + 1
                      /\ webOut'[Len(webOut')].status = 200
                      /\ webOut'[Len(webOut')].cached
                      /\ webOut'[Len(webOut')].result = result
                      /\ pending' = pending
              IN  /\ (k \in DOMAIN cache /\ now <= cache[k].expiresAt) =>
                         served(cache[k].value)
                  /\ \A i \in DOMAIN webOut :
                         (CleanSuccess(i, k) /\ NotClearedSince(i) /\ now <= Ttl) =>
                             served(webOut[i].result)]_vars

====
